---- MODULE Spec2Model ----
(***************************************************************************)
(* Model of superphot's resampling / validation / hyperparameter sweep:    *)
(*   classify.py  MultivariateGaussian._fit_resample, validate_classifier  *)
(*   optimize.py  test_hyperparameters, main                               *)
(* Four specifications share the module, one per routine:                  *)
(*   SpecResample, SpecValidate, SpecMetrics, SpecSweep.                   *)
(***************************************************************************)
EXTENDS Integers, Sequences, FiniteSets

VARIABLES
    X, y, sampling_strategy,          \* fit_resample: inputs and configuration
    X_resampled, y_resampled,         \* fit_resample: accumulating output
    pending, pc,                      \* fit_resample: classes still to visit, position
    data,                             \* validate_classifier: the table (columns id, label)
    fold, labels_test, written,       \* validate_classifier: folds done, predictions, writes per row
    fold_log, cnf_matrix, vpc,        \* validate_classifier: what each fold did, result, position
    results, param_metrics, mpc,      \* test_hyperparameters: aggregated results, stored metrics
    ps, pool, pipeline, next,         \* optimize.main: combinations, mode, shared pipeline, cursor
    rows, files, wrote, logged, spc   \* optimize.main: records, artifacts, writers, log, position

sampler_vars == <<X, y, X_resampled, y_resampled, pending, pc>>
validate_vars == <<data, fold, labels_test, written, fold_log, cnf_matrix, vpc>>

metrics_vars == <<results, param_metrics, mpc>>
sweep_vars == <<ps, pool, pipeline, next, rows, files, wrote, logged, spc>>

vars == <<sampling_strategy, sampler_vars, validate_vars, metrics_vars, sweep_vars>>

(***************************************************************************)
(* Bounds of the model.                                                    *)
(***************************************************************************)
NumClasses == 3
MaxRows == 4
MaxTarget == 3
MaxData == 4
MaxEval == 3
MaxCombos == 2

Classes == 1..NumClasses
\* Two distinct feature vectors: enough for a zero and a nonzero covariance.
Feat == {0, 1}

(***************************************************************************)
(* Helpers.  A feature vector is abstracted to one integer; a mean or a    *)
(* covariance is the exact rational <<numerator, denominator>>, so that    *)
(* 0/0 (NaN) is <<0, 0>> and is not confused with zero.                    *)
(***************************************************************************)
Min(S) == CHOOSE m \in S : \A o \in S : m <= o

RECURSIVE SumOver(_, _)
SumOver(f, idx) ==
    IF idx = {} THEN 0
    ELSE LET i == Min(idx) IN f[i] + SumOver(f, idx \ {i})

IsNaN(r) == r[2] = 0
RatEq(a, b) == ~IsNaN(a) /\ ~IsNaN(b) /\ a[1] * b[2] = b[1] * a[2]
IsZero(r) == ~IsNaN(r) /\ r[1] = 0

\* np.unique(y): the classes present.
unique(lab) == {lab[i] : i \in DOMAIN lab}

\* np.flatnonzero(y == class_sample)
flatnonzero(lab, c) == {i \in DOMAIN lab : lab[i] = c}

\* np.mean(X_class, axis=0)
mean(feat, idx) == <<SumOver(feat, idx), Cardinality(idx)>>

\* np.cov(X_class, rowvar=False): N-1 denominator; one row gives 0/0.
cov(feat, idx) ==
    LET n == Cardinality(idx)
        s == SumOver(feat, idx)
        q == SumOver([i \in DOMAIN feat |-> feat[i] * feat[i]], idx)
    IN  <<n * q - s * s, n * (n - 1)>>

\* A row of the output: an original row, or a draw from N(val, noise)
\* made from the statistics of class `of` (0: not drawn).
Original(f) == [val |-> <<f, 1>>, noise |-> <<0, 1>>, of |-> 0]

\* X.copy()
copy(feat) == [i \in DOMAIN feat |-> Original(feat[i])]

\* rs.multivariate_normal(mean, cov, n_samples): n rows, each distributed
\* N(mean, cov); with a zero covariance every row is the mean itself.
multivariate_normal(m, c, n, cls) == [i \in 1..n |-> [val |-> m, noise |-> c, of |-> cls]]

repeat_swapped(c, n) == [i \in 1..c |-> n]

\* np.repeat(class_sample, n_samples)
repeat(c, n) == [i \in 1..n |-> c]

\* imblearn's 'all' strategy, used when no integer target was given:
\* every class is brought to the count of the largest one.
MaxCount(lab) ==
    CHOOSE m \in 0..Len(lab) :
        /\ \E c \in unique(lab) : Cardinality(flatnonzero(lab, c)) = m
        /\ \A c \in unique(lab) : Cardinality(flatnonzero(lab, c)) <= m

\* MultivariateGaussian.__init__: an int strategy is the per-class total.
SamplerConfigs ==
    {[samples_per_class |-> t, is_int |-> TRUE] : t \in 1..MaxTarget}
        \cup {[samples_per_class |-> 0, is_int |-> FALSE]}

\* check_sampling_strategy, called by fit: np.unique(y).size <= 1 is an error.
fit_raises(lab) == Cardinality(unique(lab)) <= 1

\* n_samples of one loop iteration.
n_samples(lab, cfg, c) ==
    IF cfg.is_int
    THEN cfg.samples_per_class - Cardinality(flatnonzero(lab, c))
    ELSE MaxCount(lab) - Cardinality(flatnonzero(lab, c))

\* Values of the other routines' variables while a routine is not running.
ValidateIdle ==
    /\ data = <<>> /\ fold = 0 /\ labels_test = <<>> /\ written = <<>>
    /\ fold_log = <<>> /\ cnf_matrix = <<>> /\ vpc = "idle"

MetricsIdle == results = <<>> /\ param_metrics = <<>> /\ mpc = "idle"

SweepIdle ==
    /\ ps = <<>> /\ pool = FALSE /\ pipeline = <<>> /\ next = 0 /\ rows = <<>>
    /\ files = <<>> /\ wrote = {} /\ logged = <<>> /\ spc = "idle"

NoSampler == sampling_strategy = [samples_per_class |-> 0, is_int |-> FALSE]

SamplerIdle ==
    /\ X = <<>> /\ y = <<>> /\ X_resampled = <<>> /\ y_resampled = <<>>
    /\ pending = {} /\ pc = "idle"

(***************************************************************************)
(* MultivariateGaussian._fit_resample                                      *)
(***************************************************************************)
InitResample ==
    /\ \E n \in 1..MaxRows :
          /\ X \in [1..n -> Feat]
          /\ y \in [1..n -> Classes]
    /\ sampling_strategy \in SamplerConfigs
    /\ X_resampled = <<>>
    /\ y_resampled = <<>>
    /\ pending = {}
    /\ pc = "start"
    /\ ValidateIdle /\ MetricsIdle /\ SweepIdle

\* self.fit(X, y): imblearn's check_sampling_strategy rejects a target with
\* fewer than two classes (ValueError) and otherwise lists every class of y
\* in sampling_strategy_, in sorted order.  Then the two copies are taken.
Fit ==
    /\ pc = "start"
    /\ IF fit_raises(y)
       THEN /\ pc' = "raised"
            /\ UNCHANGED <<X_resampled, y_resampled, pending>>
       ELSE /\ pc' = "loop"
            /\ X_resampled' = copy(X)
            /\ y_resampled' = y
            /\ pending' = unique(y)
    /\ UNCHANGED <<X, y, sampling_strategy>>
    /\ UNCHANGED <<validate_vars, metrics_vars, sweep_vars>>

\* The next item of sampling_strategy_.items().
class_sample == Min(pending)

\* if n_samples == 0: continue
SkipClass ==
    /\ pc = "loop" /\ pending # {}
    /\ n_samples(y, sampling_strategy, class_sample) = 0
    /\ pending' = pending \ {class_sample}
    /\ UNCHANGED <<X, y, sampling_strategy, X_resampled, y_resampled, pc>>
    /\ UNCHANGED <<validate_vars, metrics_vars, sweep_vars>>

\* The body of the loop with a usable covariance.
DrawClass ==
    /\ pc = "loop" /\ pending # {}
    /\ LET c == class_sample
           idx == flatnonzero(y, c)
           n == n_samples(y, sampling_strategy, c)
       IN  /\ n > 0
           /\ ~IsNaN(cov(X, idx))
           /\ X_resampled' = X_resampled \o multivariate_normal(mean(X, idx), cov(X, idx), n, c)
           /\ y_resampled' = y_resampled \o repeat(c, n)
           /\ pending' = pending \ {c}
    /\ UNCHANGED <<X, y, sampling_strategy, pc>>
    /\ UNCHANGED <<validate_vars, metrics_vars, sweep_vars>>

\* multivariate_normal with a negative size raises ValueError.
DrawNegative ==
    /\ pc = "loop" /\ pending # {}
    /\ n_samples(y, sampling_strategy, class_sample) < 0
    /\ pc' = "raised"
    /\ UNCHANGED <<X, y, sampling_strategy, X_resampled, y_resampled, pending>>
    /\ UNCHANGED <<validate_vars, metrics_vars, sweep_vars>>

\* One row in the class: the covariance is NaN.  The SVD inside
\* multivariate_normal either fails to converge (LinAlgError) or hands
\* back NaN rows, depending on the LAPACK build.
DrawNaN ==
    /\ pc = "loop" /\ pending # {}
    /\ LET c == class_sample
           idx == flatnonzero(y, c)
           n == n_samples(y, sampling_strategy, c)
       IN  /\ n > 0
           /\ IsNaN(cov(X, idx))
           /\ \/ /\ pc' = "raised"
                 /\ UNCHANGED <<X_resampled, y_resampled, pending>>
              \/ /\ X_resampled' = X_resampled \o multivariate_normal(mean(X, idx), cov(X, idx), n, c)
                 /\ y_resampled' = y_resampled \o repeat(c, n)
                 /\ pending' = pending \ {c}
                 /\ pc' = pc
    /\ UNCHANGED <<X, y, sampling_strategy>>
    /\ UNCHANGED <<validate_vars, metrics_vars, sweep_vars>>

\* return X_resampled, y_resampled
Return ==
    /\ pc = "loop" /\ pending = {}
    /\ pc' = "returned"
    /\ UNCHANGED <<X, y, sampling_strategy, X_resampled, y_resampled, pending>>
    /\ UNCHANGED <<validate_vars, metrics_vars, sweep_vars>>

NextResample == Fit \/ SkipClass \/ DrawClass \/ DrawNegative \/ DrawNaN \/ Return

SpecResample == InitResample /\ [][NextResample]_vars

(***************************************************************************)
(* validate_classifier                                                     *)
(***************************************************************************)
\* What sampler.fit_resample does to a training subset, as one step: it
\* raises when fit rejects the subset, or as soon as some class asks for a negative number of draws or has
\* a NaN covariance (a LinAlgError from the draw, or NaN rows that clf.fit
\* then rejects); otherwise every class present ends with its own rows plus
\* the draws, so the labels handed to clf.fit are those of the subset.
fit_resample_raises(lab, cfg) ==
    \/ fit_raises(lab)
    \/ \E c \in unique(lab) :
          LET n == n_samples(lab, cfg, c)
          IN  n < 0 \/ (n > 0 /\ Cardinality(flatnonzero(lab, c)) = 1)

\* data[column][index]: the rows of an index set, in table order.
RECURSIVE take(_, _)
take(col, idx) ==
    IF idx = {} THEN <<>>
    ELSE LET i == Min(idx) IN <<col[i]>> \o take(col, idx \ {i})

ids(t) == [i \in DOMAIN t |-> t[i].id]
labels(t) == [i \in DOMAIN t |-> t[i].label]

\* KFold(n_splits).split(data), no shuffling: consecutive blocks of rows,
\* the first n % n_splits of them one row longer.
n_splits(t) == Cardinality(unique(ids(t)))

fold_size_floor(n, k, i) == n \div k

fold_size(n, k, i) == (n \div k) + (IF i <= n % k THEN 1 ELSE 0)

RECURSIVE fold_start(_, _, _)
fold_start(n, k, i) ==
    IF i = 1 THEN 0 ELSE fold_start(n, k, i - 1) + fold_size(n, k, i - 1)

test_index(n, k, i) == (fold_start(n, k, i) + 1)..(fold_start(n, k, i) + fold_size(n, k, i))

train_index(n, k, i) == (1..n) \ test_index(n, k, i)

\* sklearn.metrics.confusion_matrix(y_true, y_pred): counts over the
\* labels that occur in either.
confusion_matrix(y_true, y_pred) ==
    LET present == unique(y_true) \cup unique(y_pred)
    IN  [tp \in present \X present |->
            Cardinality({i \in DOMAIN y_true : y_true[i] = tp[1] /\ y_pred[i] = tp[2]})]

\* The id and label columns tried.  validate_classifier only compares
\* group keys, and labels, for equality, so each way of grouping the rows is
\* tried once: values are numbered in order of first appearance.
Columns(n, most) ==
    {g \in [1..n -> 1..most] :
        \A i \in 1..n : g[i] = 1 \/ \E j \in 1..(i - 1) : g[j] >= g[i] - 1}

InitValidate ==
    /\ \E n \in 1..MaxData :
          \E g \in Columns(n, n), l \in Columns(n, NumClasses) :
              data = [i \in 1..n |-> [id |-> g[i], label |-> l[i]]]
    /\ sampling_strategy \in SamplerConfigs
    /\ fold = 0
    /\ labels_test = [i \in DOMAIN data |-> 0]      \* np.empty_like: not yet a label
    /\ written = [i \in DOMAIN data |-> 0]
    /\ fold_log = <<>>
    /\ cnf_matrix = <<>>
    /\ vpc = "start"
    /\ SamplerIdle /\ MetricsIdle /\ SweepIdle

\* kf = KFold(len(np.unique(data['id']))): fewer than two splits is a ValueError.
MakeKFold ==
    /\ vpc = "start"
    /\ vpc' = IF n_splits(data) >= 2 THEN "loop" ELSE "raised"
    /\ UNCHANGED <<data, fold, labels_test, written, fold_log, cnf_matrix>>
    /\ UNCHANGED <<sampling_strategy, sampler_vars, metrics_vars, sweep_vars>>

\* One pass of the loop body that completes: resample the training rows,
\* fit, predict the held-out rows, record.  A fitted forest predicts only
\* classes it was fitted on.
RunFold ==
    /\ vpc = "loop" /\ fold < n_splits(data)
    /\ LET n == Len(data)
           test == test_index(n, n_splits(data), fold + 1)
           train == train_index(n, n_splits(data), fold + 1)
           labels_train == take(labels(data), train)
       IN  /\ ~fit_resample_raises(labels_train, sampling_strategy)
           /\ \E predicted \in [test -> unique(labels_train)] :
                 labels_test' = [i \in DOMAIN labels_test |->
                                    IF i \in test THEN predicted[i] ELSE labels_test[i]]
           /\ written' = [i \in DOMAIN written |->
                             IF i \in test THEN written[i] + 1 ELSE written[i]]
           /\ fold_log' = Append(fold_log,
                 [train |-> train, test |-> test, classes |-> unique(labels_train)])
    /\ fold' = fold + 1
    /\ UNCHANGED <<data, cnf_matrix, vpc>>
    /\ UNCHANGED <<sampling_strategy, sampler_vars, metrics_vars, sweep_vars>>

\* A pass in which fit_resample (or the fit on its NaN rows) raises: the
\* exception leaves validate_classifier.
FoldRaises ==
    /\ vpc = "loop" /\ fold < n_splits(data)
    /\ LET n == Len(data)
           train == train_index(n, n_splits(data), fold + 1)
       IN  fit_resample_raises(take(labels(data), train), sampling_strategy)
    /\ vpc' = "raised"
    /\ UNCHANGED <<data, fold, labels_test, written, fold_log, cnf_matrix>>
    /\ UNCHANGED <<sampling_strategy, sampler_vars, metrics_vars, sweep_vars>>

\* cnf_matrix = confusion_matrix(data['label'], labels_test); return it.
Finish ==
    /\ vpc = "loop" /\ fold = n_splits(data)
    /\ cnf_matrix' = confusion_matrix(labels(data), labels_test)
    /\ vpc' = "done"
    /\ UNCHANGED <<data, fold, labels_test, written, fold_log>>
    /\ UNCHANGED <<sampling_strategy, sampler_vars, metrics_vars, sweep_vars>>

NextValidate == MakeKFold \/ RunFold \/ FoldRaises \/ Finish

SpecValidate == InitValidate /\ [][NextValidate]_vars

(***************************************************************************)
(* test_hyperparameters: the metrics computed from the aggregated results  *)
(***************************************************************************)
\* pipeline.classes_: the classes the pipeline was fitted on, sorted.
classes_ == [k \in 1..NumClasses |-> k]

\* The k-th smallest element of a set: position k of a sorted array.
nth(S, k) == CHOOSE x \in S : Cardinality({z \in S : z < x}) = k - 1

types(r) == [i \in DOMAIN r |-> r[i].type]
predicted_types(r) == [i \in DOMAIN r |-> r[i].predicted]

\* The sorted labels that index the rows and columns of cnf_matrix.
cnf_labels(r) == unique(types(r)) \cup unique(predicted_types(r))

\* np.diag(cnf_matrix) / cnf_matrix.sum(axis=1), by position; 0/0 is NaN.
completeness(r) ==
    LET cm == confusion_matrix(types(r), predicted_types(r))
        lab == cnf_labels(r)
    IN  [k \in 1..Cardinality(lab) |->
            <<cm[<<nth(lab, k), nth(lab, k)>>],
              SumOver([j \in lab |-> cm[<<nth(lab, k), j>>]], lab)>>]

\* np.diag(cnf_matrix) / cnf_matrix.sum(axis=0), by position.
purity(r) ==
    LET cm == confusion_matrix(types(r), predicted_types(r))
        lab == cnf_labels(r)
    IN  [k \in 1..Cardinality(lab) |->
            <<cm[<<nth(lab, k), nth(lab, k)>>],
              SumOver([i \in lab |-> cm[<<i, nth(lab, k)>>]], lab)>>]

\* accuracy_score(results['type'], predicted_types)
accuracy_score(r) == <<Cardinality({i \in DOMAIN r : r[i].type = r[i].predicted}), Len(r)>>

\* for sntype, complete, pure in zip(pipeline.classes_, completeness, purity):
\* the pairing is by position and stops at the shorter sequence.
zip_metrics(cls, complete, pure) ==
    LET m == IF Len(cls) <= Len(complete) THEN Len(cls) ELSE Len(complete)
    IN  [c \in {cls[k] : k \in 1..m} |->
            LET k == CHOOSE k \in 1..m : cls[k] = c
            IN  [completeness |-> complete[k], purity |-> pure[k]]]

InitMetrics ==
    /\ \E n \in 1..MaxEval : results \in [1..n -> [type : Classes, predicted : Classes]]
    /\ param_metrics = <<>>
    /\ mpc = "start"
    /\ NoSampler /\ SamplerIdle /\ ValidateIdle /\ SweepIdle

\* Lines 41-49: accuracy, then the per-class entries of param_set.
ComputeMetrics ==
    /\ mpc = "start"
    /\ param_metrics' = [accuracy |-> accuracy_score(results),
                         per_class |-> zip_metrics(classes_, completeness(results), purity(results))]
    /\ mpc' = "stored"
    /\ UNCHANGED results
    /\ UNCHANGED <<sampling_strategy, sampler_vars, validate_vars, sweep_vars>>

NextMetrics == ComputeMetrics

SpecMetrics == InitMetrics /\ [][NextMetrics]_vars

(***************************************************************************)
(* optimize.main and test_hyperparameters: the sweep                       *)
(***************************************************************************)
\* A JSON value of the grid: its type and the characters str() gives it.
Int0 == [t |-> "int", s |-> <<"0">>]
Int1 == [t |-> "int", s |-> <<"1">>]
StrX == [t |-> "str", s |-> <<"x">>]
StrX_X == [t |-> "str", s |-> <<"x", "_", "x">>]
NoneValue == [t |-> "none", s |-> <<"N", "o", "n", "e">>]

Values == {Int0, Int1, StrX, StrX_X}

\* Two pipeline parameters a grid may name, in sorted order.
ParamNames == <<"classifier__a", "classifier__b">>

\* The parameter sets a ParameterGrid / ParameterSampler can yield: a list
\* of grids may give sets with different keys.
ParamSets ==
    UNION {[D -> Values] : D \in (SUBSET {ParamNames[k] : k \in DOMAIN ParamNames}) \ {{}}}

\* str(value)
str(v) == v.s

\* sorted(param_set.keys())
param_names(param_set) == SelectSeq(ParamNames, LAMBDA k : k \in DOMAIN param_set)

RECURSIVE join(_, _)
join(sep, parts) ==
    IF parts = <<>> THEN <<>>
    ELSE IF Len(parts) = 1 THEN parts[1]
    ELSE parts[1] \o sep \o join(sep, Tail(parts))

\* '_'.join([str(param_set[key]) for key in param_names]) + '.json'
filename(param_set) ==
    LET names == param_names(param_set)
    IN  join(<<"_">>, [k \in DOMAIN names |-> str(param_set[names[k]])]) \o <<".json">>

\* pickle.load(f): the pipeline as loaded, every parameter at its default.
LoadedPipeline ==
    [k \in {ParamNames[i] : i \in DOMAIN ParamNames} \cup {"classifier__n_jobs"} |-> NoneValue]

\* pipeline.set_params(classifier__n_jobs=1, **param_set): only the named
\* parameters are assigned; the others keep what they hold.
set_params(pl, param_set) ==
    [k \in DOMAIN pl |->
        IF k = "classifier__n_jobs" THEN Int1
        ELSE IF k \in DOMAIN param_set THEN param_set[k]
        ELSE pl[k]]

\* validate_classifier raises when the pipeline holds a value the
\* classifier rejects (here the integer 0).
fit_rejects(pl) == \E k \in DOMAIN pl : pl[k] = Int0

\* The dictionary test_hyperparams returns: the input parameters, and the
\* metrics when they were computed (they depend on the configuration the
\* pipeline was fitted with, which is recorded in their place).
Record(param_set, metrics) == [params |-> param_set, metrics |-> metrics]

InitSweep ==
    /\ \E n \in 1..MaxCombos :
          /\ ps \in [1..n -> ParamSets]
          /\ \A i, j \in 1..n : i # j => ps[i] # ps[j]
    /\ pool \in BOOLEAN
    /\ pipeline = LoadedPipeline
    /\ next = 1
    /\ rows = <<>> /\ files = <<>> /\ wrote = {} /\ logged = <<>>
    /\ spc = "map"
    /\ NoSampler /\ SamplerIdle /\ ValidateIdle /\ MetricsIdle

\* test_hyperparams(param_set), sequential mode, all of test_hyperparameters
\* succeeding: the artifact is written, the record returned.
EvaluateOk ==
    /\ spc = "map" /\ ~pool /\ next <= Len(ps)
    /\ LET pl == set_params(pipeline, ps[next])
           rec == Record(ps[next], <<pl>>)
       IN  /\ ~fit_rejects(pl)
           /\ pipeline' = pl
           /\ files' = [f \in DOMAIN files \cup {filename(ps[next])} |->
                           IF f = filename(ps[next]) THEN rec ELSE files[f]]
           /\ wrote' = wrote \cup {next}
           /\ rows' = Append(rows, rec)
    /\ next' = next + 1
    /\ UNCHANGED <<ps, pool, logged, spc>>
    /\ UNCHANGED <<sampling_strategy, sampler_vars, validate_vars, metrics_vars>>

\* validate_classifier raises: caught, logged, the input param_set returned.
EvaluateRejected ==
    /\ spc = "map" /\ ~pool /\ next <= Len(ps)
    /\ LET pl == set_params(pipeline, ps[next])
       IN  /\ fit_rejects(pl)
           /\ pipeline' = pl
           /\ rows' = Append(rows, Record(ps[next], <<>>))
    /\ logged' = Append(logged, next)
    /\ next' = next + 1
    /\ UNCHANGED <<ps, pool, files, wrote, spc>>
    /\ UNCHANGED <<sampling_strategy, sampler_vars, validate_vars, metrics_vars>>

\* open(filename, 'w') raises (OSError): caught and logged; param_set was
\* already given its metrics, and is what the handler returns.
EvaluateWriteFails ==
    /\ spc = "map" /\ ~pool /\ next <= Len(ps)
    /\ LET pl == set_params(pipeline, ps[next])
       IN  /\ ~fit_rejects(pl)
           /\ pipeline' = pl
           /\ rows' = Append(rows, Record(ps[next], <<pl>>))
    /\ logged' = Append(logged, next)
    /\ next' = next + 1
    /\ UNCHANGED <<ps, pool, files, wrote, spc>>
    /\ UNCHANGED <<sampling_strategy, sampler_vars, validate_vars, metrics_vars>>

\* p.map(test_hyperparams, ps): test_hyperparams is a function local to
\* main, which pickle cannot send to a worker; map re-raises the error in
\* main before any combination is evaluated.
PoolMap ==
    /\ spc = "map" /\ pool
    /\ spc' = "aborted"
    /\ UNCHANGED <<ps, pool, pipeline, next, rows, files, wrote, logged>>
    /\ UNCHANGED <<sampling_strategy, sampler_vars, validate_vars, metrics_vars>>

\* The keys of one returned dictionary.
RowKeys(r) == <<DOMAIN r.params, r.metrics # <<>>>>

\* tfinal = Table(rows); tfinal.write(...)
WriteTable ==
    /\ spc = "map" /\ ~pool /\ next > Len(ps)
    /\ spc' = "written"
    /\ UNCHANGED <<ps, pool, pipeline, next, rows, files, wrote, logged>>
    /\ UNCHANGED <<sampling_strategy, sampler_vars, validate_vars, metrics_vars>>

\* Table(rows) on dictionaries whose keys differ: astropy releases that
\* require every row to have every column raise ValueError here (later
\* ones mask the missing values, which is WriteTable).
TableRaises ==
    /\ spc = "map" /\ ~pool /\ next > Len(ps)
    /\ \E i, j \in DOMAIN rows : RowKeys(rows[i]) # RowKeys(rows[j])
    /\ spc' = "aborted"
    /\ UNCHANGED <<ps, pool, pipeline, next, rows, files, wrote, logged>>
    /\ UNCHANGED <<sampling_strategy, sampler_vars, validate_vars, metrics_vars>>

NextSweep ==
    EvaluateOk \/ EvaluateRejected \/ EvaluateWriteFails \/ PoolMap \/ WriteTable \/ TableRaises

SpecSweep == InitSweep /\ [][NextSweep]_vars

(***************************************************************************)
(* Properties of fit_resample (checked under SpecResample)                 *)
(***************************************************************************)
Count(lab, c) == Cardinality(flatnonzero(lab, c))
Max(a, b) == IF a >= b THEN a ELSE b
Synthetic(c) == {i \in DOMAIN X_resampled : i > Len(X) /\ X_resampled[i].of = c}

\* C1: with an integer target T, fit_resample returns without error and
\* every class c of y ends with exactly max(original_count(c), T) rows; a
\* class already above T is skipped.  Stated over the inputs in which every
\* class has at least two rows, so that the NaN covariance of a one-row
\* class (C8) is not what decides it.
C1_ReturnsWithMaxCount ==
    (/\ sampling_strategy.is_int
     /\ Cardinality(unique(y)) >= 2
     /\ \A c \in unique(y) : Count(y, c) >= 2)
    => /\ pc # "raised"
       /\ pc = "returned" =>
             \A c \in unique(y) :
                 Count(y_resampled, c) = Max(Count(y, c), sampling_strategy.samples_per_class)

C3_Additive ==
    pc \in {"loop", "returned"} =>
    /\ Len(X_resampled) = Len(y_resampled)
    /\ Len(X_resampled) >= Len(X)
    /\ \A i \in 1..Len(X) : X_resampled[i] = Original(X[i]) /\ y_resampled[i] = y[i]
    /\ \A i \in (Len(X) + 1)..Len(X_resampled) :
          LET c == X_resampled[i].of
          IN  /\ c \in unique(y)
              /\ y_resampled[i] = c
              /\ X_resampled[i].val = mean(X, flatnonzero(y, c))
              /\ X_resampled[i].noise = cov(X, flatnonzero(y, c))

\* C3: fit_resample is purely additive: the first len(X) rows and labels of
\* the output are the input's, in order and unchanged; every appended row
\* carries the label of the class whose mean and covariance it was drawn
\* from; and the caller's X and y are never written.
C3_PurelyAdditive == [](C3_Additive) /\ [][X' = X /\ y' = y]_vars

\* Witness of C3: a call that returned after drawing rows for two classes.
C3_Witness ==
    /\ pc = "returned"
    /\ \E c, d \in unique(y) : c # d /\ Synthetic(c) # {} /\ Synthetic(d) # {}
    /\ \A i \in DOMAIN X_resampled : ~IsNaN(X_resampled[i].noise)

\* C8: for a class with exactly one row and an integer target T > 1, the
\* draw does not fail and appends exactly T-1 rows, each equal to that row
\* (zero covariance, draws collapse to the mean).
C8_SingletonDuplicates ==
    \A c \in unique(y) :
        (/\ sampling_strategy.is_int
         /\ sampling_strategy.samples_per_class > 1
         /\ Count(y, c) = 1)
        => /\ ~(pc = "raised" /\ pending # {} /\ class_sample = c)
           /\ (pc \in {"loop", "returned"} /\ c \notin pending) =>
                 /\ Cardinality(Synthetic(c)) = sampling_strategy.samples_per_class - 1
                 /\ \A i \in Synthetic(c) :
                       /\ IsZero(X_resampled[i].noise)
                       /\ \E j \in flatnonzero(y, c) : RatEq(X_resampled[i].val, <<X[j], 1>>)

\* The one-step summary used by validate_classifier agrees with the loop.
ResampleSummaryAgrees ==
    /\ pc = "raised" => fit_resample_raises(y, sampling_strategy)
    /\ (pc = "returned" /\ \A i \in DOMAIN X_resampled : ~IsNaN(X_resampled[i].noise))
          => /\ ~fit_resample_raises(y, sampling_strategy)
             /\ unique(y_resampled) = unique(y)

(***************************************************************************)
(* Properties of validate_classifier (checked under SpecValidate)          *)
(***************************************************************************)
Groups == unique(ids(data))
TestFoldsOf(g) == {k \in 1..Len(fold_log) : \E j \in fold_log[k].test : data[j].id = g}

\* C2: in every fold no training row shares its group key (data['id'])
\* with a test row, and when the loop has ended every group key has appeared
\* in exactly one test fold.
C2_GroupsHeldOutTogether ==
    /\ \A k \in 1..Len(fold_log) :
          \A i \in fold_log[k].train, j \in fold_log[k].test : data[i].id # data[j].id
    /\ vpc = "done" => \A g \in Groups : Cardinality(TestFoldsOf(g)) = 1

\* C4: with G distinct group keys the split has G test sets, pairwise
\* disjoint, whose union is all row indices; the folds run are a prefix of
\* them, no entry of labels_test is written twice, and when the loop ends G
\* folds have run and every entry has been written exactly once.
C4_FoldsPartitionRows ==
    LET n == Len(data)
        G == n_splits(data)
    IN  /\ vpc \in {"loop", "done"} =>
              /\ \A a, b \in 1..G : a # b => test_index(n, G, a) \cap test_index(n, G, b) = {}
              /\ UNION {test_index(n, G, k) : k \in 1..G} = 1..n
              /\ Len(fold_log) = fold /\ fold <= G
              /\ \A k \in 1..fold : fold_log[k].test = test_index(n, G, k)
              /\ \A i \in 1..n : written[i] = IF \E k \in 1..fold : i \in fold_log[k].test THEN 1 ELSE 0
        /\ vpc = "done" =>
              /\ fold = G
              /\ \A i \in 1..n : written[i] = 1 /\ labels_test[i] \in Classes

\* Witness of C4: the loop ended on a table whose groups differ in size.
C4_Witness ==
    /\ vpc = "done"
    /\ \E g, h \in Groups :
          Cardinality(flatnonzero(ids(data), g)) > Cardinality(flatnonzero(ids(data), h))

\* C7: a fold whose training rows lack a class of the full table ends in an
\* error that leaves validate_classifier; the loop never fits on the reduced
\* class set, records the predictions and goes on to the confusion matrix.
C7_MissingClassIsFatal ==
    vpc = "done" =>
        \A k \in 1..Len(fold_log) : fold_log[k].classes = unique(labels(data))

(***************************************************************************)
(* Properties of the metrics (checked under SpecMetrics)                   *)
(***************************************************************************)
TrueMembers(c) == {i \in DOMAIN results : results[i].type = c}
PredictedMembers(c) == {i \in DOMAIN results : results[i].predicted = c}

\* C9: for every class c of pipeline.classes_ the stored completeness and
\* purity are those of c's own row and column of the confusion matrix
\* (correct over true members, correct over predicted members), and they are
\* NaN, with nothing raised, when c has no true (no predicted) members,
\* also when c has neither.
C9_OwnRowAndColumn ==
    mpc = "stored" =>
        \A c \in unique(classes_) :
            /\ c \in DOMAIN param_metrics.per_class
            /\ param_metrics.per_class[c].completeness =
                  <<Cardinality(TrueMembers(c) \cap PredictedMembers(c)), Cardinality(TrueMembers(c))>>
            /\ param_metrics.per_class[c].purity =
                  <<Cardinality(TrueMembers(c) \cap PredictedMembers(c)), Cardinality(PredictedMembers(c))>>
            /\ TrueMembers(c) = {} => IsNaN(param_metrics.per_class[c].completeness)
            /\ PredictedMembers(c) = {} => IsNaN(param_metrics.per_class[c].purity)

(***************************************************************************)
(* Properties of the sweep (checked under SpecSweep)                       *)
(***************************************************************************)
\* C5: each failure is caught and logged inside its unit of work, every
\* combination is evaluated exactly once, the sweep goes on to write the
\* combined table instead of aborting, and the record of a failing
\* combination has its input parameters without a complete set of metrics;
\* in sequential mode and in worker-pool mode.
C5_SweepSurvivesFailures ==
    /\ spc # "aborted"
    /\ spc = "written" =>
          /\ Len(rows) = Len(ps)
          /\ \A k \in DOMAIN rows : rows[k].params = ps[k]
          /\ \A i \in DOMAIN logged : rows[logged[i]].metrics = <<>>

\* What evaluating one combination on the pipeline as loaded returns.
RecordAlone(param_set) ==
    LET pl == set_params(LoadedPipeline, param_set)
    IN  IF fit_rejects(pl) THEN Record(param_set, <<>>) ELSE Record(param_set, <<pl>>)

\* C6: units of work share no mutable state: the record of a combination
\* is what that combination gives on the inputs as loaded, whatever was
\* evaluated before it.
C6_RecordIndependentOfHistory ==
    \A k \in DOMAIN rows : rows[k] = RecordAlone(ps[k])

\* C10: two distinct combinations are written to distinct filenames, so
\* the artifact of the earlier one still holds its own record; and an
\* artifact exists only for a combination whose evaluation succeeded, by the
\* time its record is returned.  Stated for combinations that name the same
\* parameters, as those of a single grid do.
C10_DistinctArtifacts ==
    /\ \A i, j \in wrote :
          (i # j /\ DOMAIN ps[i] = DOMAIN ps[j]) =>
              /\ filename(ps[i]) # filename(ps[j])
              /\ i \in DOMAIN rows /\ files[filename(ps[i])] = rows[i]
    /\ \A f \in DOMAIN files :
          \E k \in wrote : f = filename(ps[k]) /\ k \notin {logged[i] : i \in DOMAIN logged}

====
